---- MODULE Spec2Model ----
(***************************************************************************)
(* GlobanNews: the daily ingestion pipeline (src/lambda_function.py) and   *)
(* the calendar viewer (src/app.py).                                       *)
(*                                                                         *)
(* Strings are sequences of one-character strings, so that parsing,       *)
(* percent-decoding and re-encoding are computed character by character.   *)
(***************************************************************************)
EXTENDS Integers, Sequences, FiniteSets, TLC

VARIABLES
    pyLegacyUnsplit,  \* the interpreter's urlunsplit: TRUE before CPython 3.12.4
    nUrl, nOnce, nTwice, nPc,     \* _normalize_url applied once and twice
    fResp, fResult, fPc,          \* _fetch_url: the response, what it returns
    iPerFeed, iFeedNo, iItems, iCap, iResult, iPc,   \* fetch_rss_items
    sPayload, sResult, sPc,       \* the parse of a decoded model response
    hDate, hPc, hCat,             \* lambda_handler: the day, the step, the category
    hFeeds, hItems,               \* what the feeds did, the items per category
    hInvokes, hSections,          \* the invoke_model calls, the sections so far
    hPuts, hCause, hReturn,       \* the put_object calls, what raised, the result
    vNow, vSelected, vMonth,      \* viewer: today, session selected_date, month_view
    vPc, vKey, vGet, vUi          \* the step, the key asked for, the get, the display

normVars == <<nUrl, nOnce, nTwice, nPc>>
fetchVars == <<fResp, fResult, fPc>>
summVars == <<sPayload, sResult, sPc>>
viewerVars == <<vNow, vSelected, vMonth, vPc, vKey, vGet, vUi>>
handlerVars == <<hDate, hPc, hCat, hFeeds, hItems, hInvokes, hSections, hPuts, hCause, hReturn>>
itemVars == <<iPerFeed, iFeedNo, iItems, iCap, iResult, iPc>>

(***************************************************************************)
(* Bounds of the explored inputs.                                          *)
(***************************************************************************)
MaxParams == 3

(***************************************************************************)
(* Characters.                                                             *)
(***************************************************************************)
\* The printable ASCII characters, 0x20 .. 0x7E, in code order.
AsciiPrintable ==
    <<" ", "!", "<DQUOTE>", "#", "$", "%", "&", "'", "(", ")", "*", "+", ",", "-", ".", "/",
      "0", "1", "2", "3", "4", "5", "6", "7", "8", "9", ":", ";", "<", "=", ">", "?",
      "@", "A", "B", "C", "D", "E", "F", "G", "H", "I", "J", "K", "L", "M", "N", "O",
      "P", "Q", "R", "S", "T", "U", "V", "W", "X", "Y", "Z", "[", "<BACKSLASH>", "]", "^", "_",
      "<BACKTICK>", "a", "b", "c", "d", "e", "f", "g", "h", "i", "j", "k", "l", "m", "n", "o",
      "p", "q", "r", "s", "t", "u", "v", "w", "x", "y", "z", "{", "|", "}", "~">>

\* U+FFFD, what bytes.decode(errors="replace") yields for an invalid byte.
ReplacementChar == "<FFFD>"

\* The code of each printable character.
OrdTable ==
    [c \in {AsciiPrintable[i] : i \in 1..Len(AsciiPrintable)} |->
        31 + (CHOOSE i \in 1..Len(AsciiPrintable) : AsciiPrintable[i] = c)]

Ord(c) == IF c \in DOMAIN OrdTable THEN OrdTable[c]
          ELSE IF c = "\t" THEN 9 ELSE IF c = "\n" THEN 10 ELSE IF c = "\r" THEN 13
          ELSE 65533

IsUpper(c) == Ord(c) \in 65..90
IsLower(c) == Ord(c) \in 97..122
IsDigit(c) == Ord(c) \in 48..57
IsAlpha(c) == IsUpper(c) \/ IsLower(c)

\* str.lower() on one character.
LowerChar(c) == IF IsUpper(c) THEN AsciiPrintable[Ord(c) + 32 - 31] ELSE c

lower(s) == [i \in 1..Len(s) |-> LowerChar(s[i])]

HexDigits == <<"0", "1", "2", "3", "4", "5", "6", "7", "8", "9", "A", "B", "C", "D", "E", "F">>

IsHex(c) == IsDigit(c) \/ Ord(c) \in 65..70 \/ Ord(c) \in 97..102

HexVal(c) == IF IsDigit(c) THEN Ord(c) - 48
             ELSE IF Ord(c) \in 65..70 THEN Ord(c) - 55 ELSE Ord(c) - 87

(***************************************************************************)
(* String helpers (str.find, str.startswith, slicing, join).               *)
(***************************************************************************)
\* The least index i >= from with s[i] = c, or 0 (str.find, one-based).
Find(s, c, from) ==
    IF \E i \in from..Len(s) : s[i] = c
    THEN CHOOSE i \in from..Len(s) : s[i] = c /\ \A j \in from..(i - 1) : s[j] # c
    ELSE 0

\* The greatest index i with s[i] = c, or 0 (str.rfind).
RFind(s, c) ==
    IF \E i \in 1..Len(s) : s[i] = c
    THEN CHOOSE i \in 1..Len(s) : s[i] = c /\ \A j \in (i + 1)..Len(s) : s[j] # c
    ELSE 0

Contains(s, c) == \E i \in 1..Len(s) : s[i] = c

StartsWith(s, p) == Len(s) >= Len(p) /\ SubSeq(s, 1, Len(p)) = p

Drop(s, n) == SubSeq(s, n + 1, Len(s))

Take(s, n) == SubSeq(s, 1, IF n < Len(s) THEN n ELSE Len(s))

\* s.split(c): the pieces between the occurrences of c.
RECURSIVE Split(_, _)
Split(s, c) ==
    LET i == Find(s, c, 1)
    IN  IF i = 0 THEN <<s>> ELSE <<SubSeq(s, 1, i - 1)>> \o Split(Drop(s, i), c)

\* c.join(parts)
RECURSIVE Join(_, _)
Join(parts, c) ==
    IF parts = <<>> THEN <<>>
    ELSE IF Len(parts) = 1 THEN parts[1]
    ELSE parts[1] \o <<c>> \o Join(Tail(parts), c)

\* s.replace(a, b) for single characters.
ReplaceChar(s, a, b) == [i \in 1..Len(s) |-> IF s[i] = a THEN b ELSE s[i]]

\* s.lstrip(chars)
LStrip(s, chars) ==
    LET keep == {i \in 1..Len(s) : s[i] \notin chars}
    IN  IF keep = {} THEN <<>>
        ELSE SubSeq(s, CHOOSE i \in keep : \A j \in keep : i <= j, Len(s))


(***************************************************************************)
(* String constants of the source, spelt as character sequences.           *)
(***************************************************************************)
S_http == <<"h", "t", "t", "p">>
S_https == <<"h", "t", "t", "p", "s">>
S_ftp == <<"f", "t", "p">>
S_ipv6_loopback == <<":", ":", "1">>
S_utm_ == <<"u", "t", "m", "_">>
S_fbclid == <<"f", "b", "c", "l", "i", "d">>
S_gclid == <<"g", "c", "l", "i", "d">>
S_igshid == <<"i", "g", "s", "h", "i", "d">>
S_mc_cid == <<"m", "c", "_", "c", "i", "d">>
S_mc_eid == <<"m", "c", "_", "e", "i", "d">>

(***************************************************************************)
(* urllib.parse, as _normalize_url uses it (CPython 3.11 Lib/urllib).      *)
(***************************************************************************)
Chr(n) == IF n \in 32..126 THEN AsciiPrintable[n - 31]
          ELSE IF n = 9 THEN "\t" ELSE IF n = 10 THEN "\n" ELSE IF n = 13 THEN "\r"
          ELSE ReplacementChar

Hex2(n) == <<HexDigits[(n \div 16) + 1], HexDigits[(n % 16) + 1]>>

\* Whether s starts with the escape %XX of byte n.
EscapeAt(s, n) ==
    /\ Len(s) >= 3
    /\ s[1] = "%" /\ IsHex(s[2]) /\ IsHex(s[3])
    /\ 16 * HexVal(s[2]) + HexVal(s[3]) = n

\* unquote(): every %XX with two hex digits becomes a byte, and the bytes are
\* decoded as UTF-8 with errors="replace"; anything else is kept.  Of the
\* multi-byte sequences only EF BF BD (U+FFFD itself) is decoded as one
\* character; every other byte above 0x7F is taken as invalid and replaced.
RECURSIVE unquote(_)
unquote(s) ==
    IF s = <<>> THEN <<>>
    ELSE IF EscapeAt(s, 239) /\ EscapeAt(Drop(s, 3), 191) /\ EscapeAt(Drop(s, 6), 189)
         THEN <<ReplacementChar>> \o unquote(Drop(s, 9))
    ELSE IF s[1] = "%" /\ Len(s) >= 3 /\ IsHex(s[2]) /\ IsHex(s[3])
         THEN <<Chr(16 * HexVal(s[2]) + HexVal(s[3]))>> \o unquote(Drop(s, 3))
         ELSE <<s[1]>> \o unquote(Tail(s))

AlwaysSafe(c) == IsAlpha(c) \/ IsDigit(c) \/ c \in {"_", ".", "-", "~"}

\* quote(s, safe): every character outside the safe set becomes the %XX of
\* its UTF-8 bytes (U+FFFD is EF BF BD).
RECURSIVE quote(_, _)
quote(s, safe) ==
    IF s = <<>> THEN <<>>
    ELSE (IF AlwaysSafe(s[1]) \/ s[1] \in safe THEN <<s[1]>>
          ELSE IF s[1] = ReplacementChar
               THEN <<"%", "E", "F", "%", "B", "F", "%", "B", "D">>
               ELSE <<"%">> \o Hex2(Ord(s[1])))
         \o quote(Tail(s), safe)

quote_plus(s) ==
    IF ~Contains(s, " ") THEN quote(s, {})
    ELSE ReplaceChar(quote(s, {" "}), " ", "+")

\* One field of a query string: name_value.split("=", 1), "+" to space, unquote.
DecodePart(part) == unquote(ReplaceChar(part, "+", " "))

parse_field(name_value) ==
    LET i == Find(name_value, "=", 1)
    IN  IF i = 0 THEN <<DecodePart(name_value), <<>>>>
        ELSE <<DecodePart(SubSeq(name_value, 1, i - 1)), DecodePart(Drop(name_value, i))>>

\* parse_qsl(qs, keep_blank_values=True): empty fields are skipped, a field
\* without "=" has the value "".
RECURSIVE parse_fields(_)
parse_fields(fields) ==
    IF fields = <<>> THEN <<>>
    ELSE (IF fields[1] = <<>> THEN <<>> ELSE <<parse_field(fields[1])>>)
         \o parse_fields(Tail(fields))

parse_qsl(qs) == IF qs = <<>> THEN <<>> ELSE parse_fields(Split(qs, "&"))

\* urlencode(q, doseq=True) on (str, str) pairs.
urlencode(q) ==
    Join([i \in 1..Len(q) |-> quote_plus(q[i][1]) \o <<"=">> \o quote_plus(q[i][2])], "&")

scheme_chars == {c \in {AsciiPrintable[i] : i \in 1..Len(AsciiPrintable)} :
                    IsAlpha(c) \/ IsDigit(c) \/ c \in {"+", "-", "."}}

\* The schemes of uses_netloc and of uses_params that the inputs can spell.
uses_netloc == {<<>>, S_http, S_https, S_ftp}
uses_params == {<<>>, S_http, S_https, S_ftp}

\* _splitnetloc(url, 2): the authority ends at the first of "/", "?", "#".
NetlocEnd(url) ==
    LET ends == {i \in 3..Len(url) : url[i] \in {"/", "?", "#"}}
    IN  IF ends = {} THEN Len(url) + 1 ELSE CHOOSE i \in ends : \A j \in ends : i <= j

_splitnetloc(url) ==
    <<SubSeq(url, 3, NetlocEnd(url) - 1), SubSeq(url, NetlocEnd(url), Len(url))>>

\* The bracketed hosts ipaddress.ip_address accepts, among those the inputs spell.
ValidBracketedHosts == {S_ipv6_loopback}

\* netloc.partition("[")[2].partition("]")[0]
BracketedHost(afterOpen) == SubSeq(afterOpen, 1, Find(afterOpen, "]", 1) - 1)

_check_bracketed_host(netloc) ==
    BracketedHost(Drop(netloc, Find(netloc, "[", 1))) \in ValidBracketedHosts

WHATWG_C0_CONTROL_OR_SPACE == {" ", "\t", "\n", "\r"}
UNSAFE_URL_BYTES_TO_REMOVE == {"\t", "\n", "\r"}

\* urlsplit, first lines: leading blanks stripped, tabs and newlines removed.
StripUrl(url) ==
    SelectSeq(LStrip(url, WHATWG_C0_CONTROL_OR_SPACE),
              LAMBDA c : c \notin UNSAFE_URL_BYTES_TO_REMOVE)

\* The index of the ":" that ends a scheme, or 0 when the URL has no scheme.
SchemeEnd(url) ==
    LET i == Find(url, ":", 1)
    IN  IF i > 1 /\ IsAlpha(url[1]) /\ (\A j \in 1..(i - 1) : url[j] \in scheme_chars)
        THEN i ELSE 0

\* <<scheme, rest>>
SplitScheme(url) ==
    IF SchemeEnd(url) > 0
    THEN <<lower(SubSeq(url, 1, SchemeEnd(url) - 1)), Drop(url, SchemeEnd(url))>>
    ELSE <<<<>>, url>>

\* <<netloc, rest>>
SplitNetloc(url) ==
    IF StartsWith(url, <<"/", "/">>) THEN _splitnetloc(url) ELSE <<<<>>, url>>

\* The ValueError cases of urlsplit: a lone bracket, or an invalid bracketed host.
BadNetloc(netloc) ==
    \/ Contains(netloc, "[") /\ ~Contains(netloc, "]")
    \/ Contains(netloc, "]") /\ ~Contains(netloc, "[")
    \/ Contains(netloc, "[") /\ Contains(netloc, "]") /\ ~_check_bracketed_host(netloc)

\* url.split(c, 1) when c occurs: <<before, after>>; else <<url, "">>.
SplitOnce(url, c) ==
    LET i == Find(url, c, 1)
    IN  IF i = 0 THEN <<url, <<>>>> ELSE <<SubSeq(url, 1, i - 1), Drop(url, i)>>

MakeSplit(scheme, netloc, pathQuery, fragment) ==
    [ok |-> ~BadNetloc(netloc), scheme |-> scheme, netloc |-> netloc,
     path |-> pathQuery[1], query |-> pathQuery[2], fragment |-> fragment]

SplitAfterNetloc(scheme, netloc, pathFragment) ==
    MakeSplit(scheme, netloc, SplitOnce(pathFragment[1], "?"), pathFragment[2])

SplitAfterScheme(scheme, netlocRest) ==
    SplitAfterNetloc(scheme, netlocRest[1], SplitOnce(netlocRest[2], "#"))

SplitStripped(schemeRest) ==
    SplitAfterScheme(schemeRest[1], SplitNetloc(schemeRest[2]))

\* urlsplit(url). ok = FALSE stands for the ValueError it raises on a
\* malformed bracketed host.
urlsplit(url) == SplitStripped(SplitScheme(StripUrl(url)))

\* _splitparams(url): the ";params" of the last path segment.
_splitparams(url) ==
    LET i == IF Contains(url, "/") THEN Find(url, ";", RFind(url, "/"))
             ELSE Find(url, ";", 1)
    IN  IF i = 0 THEN <<url, <<>>>> ELSE <<SubSeq(url, 1, i - 1), Drop(url, i)>>

MakeParse(r, pathParams) ==
    [ok |-> r.ok, scheme |-> r.scheme, netloc |-> r.netloc, path |-> pathParams[1],
     params |-> pathParams[2], query |-> r.query, fragment |-> r.fragment]

ParseSplit(r) ==
    MakeParse(r, IF r.scheme \in uses_params /\ Contains(r.path, ";")
                 THEN _splitparams(r.path) ELSE <<r.path, <<>>>>)

urlparse(url) == ParseSplit(urlsplit(url))

\* urlunsplit before CPython 3.12.4: a path that starts with "//" under an empty
\* authority is written as it is, and reads back as an authority.
urlunsplit_legacy(scheme, netloc, url, query, fragment) ==
    LET u1 == IF netloc # <<>>
                 \/ (scheme # <<>> /\ scheme \in uses_netloc /\ Take(url, 2) # <<"/", "/">>)
              THEN <<"/", "/">> \o netloc
                   \o (IF url # <<>> /\ url[1] # "/" THEN <<"/">> \o url ELSE url)
              ELSE url
        u2 == IF scheme # <<>> THEN scheme \o <<":">> \o u1 ELSE u1
        u3 == IF query # <<>> THEN u2 \o <<"?">> \o query ELSE u2
    IN  IF fragment # <<>> THEN u3 \o <<"#">> \o fragment ELSE u3

\* urlunsplit from CPython 3.12.4 on: such a path gets an empty authority "//".
urlunsplit_fixed(scheme, netloc, url, query, fragment) ==
    LET u1 == IF netloc # <<>>
              THEN <<"/", "/">> \o netloc
                   \o (IF url # <<>> /\ url[1] # "/" THEN <<"/">> \o url ELSE url)
              ELSE IF Take(url, 2) = <<"/", "/">> THEN <<"/", "/">> \o url
              ELSE IF scheme # <<>> /\ scheme \in uses_netloc /\ (url = <<>> \/ url[1] = "/")
                   THEN <<"/", "/">> \o url
                   ELSE url
        u2 == IF scheme # <<>> THEN scheme \o <<":">> \o u1 ELSE u1
        u3 == IF query # <<>> THEN u2 \o <<"?">> \o query ELSE u2
    IN  IF fragment # <<>> THEN u3 \o <<"#">> \o fragment ELSE u3

urlunsplit(scheme, netloc, url, query, fragment) ==
    IF pyLegacyUnsplit THEN urlunsplit_legacy(scheme, netloc, url, query, fragment)
    ELSE urlunsplit_fixed(scheme, netloc, url, query, fragment)

urlunparse(scheme, netloc, url, params, query, fragment) ==
    urlunsplit(scheme, netloc, IF params # <<>> THEN url \o <<";">> \o params ELSE url,
               query, fragment)

(***************************************************************************)
(* _normalize_url                                                          *)
(***************************************************************************)
TrackingNames == {S_fbclid, S_gclid, S_igshid, S_mc_cid, S_mc_eid}

IsTrackingKey_CaseSensitive(k) == StartsWith(k, S_utm_) \/ k \in TrackingNames

\* Lines 81-85: the key, lowercased, starts with utm_ or is a tracking name.
IsTrackingKey(k) == StartsWith(lower(k), S_utm_) \/ lower(k) \in TrackingNames

\* Lines 79-86: the (key, value) pairs that survive, in order.
FilterQuery(pairs) == SelectSeq(pairs, LAMBDA kv : ~IsTrackingKey(kv[1]))

\* Lines 79-90 once urlparse has returned p (p.ok = FALSE: it raised).
Reassemble(url, p) ==
    IF ~p.ok THEN url
    ELSE urlunparse(p.scheme, p.netloc, p.path, p.params,
                    urlencode(FilterQuery(parse_qsl(p.query))), p.fragment)

_normalize_url(url) == IF url = <<>> THEN url ELSE Reassemble(url, urlparse(url))


(***************************************************************************)
(* The URLs explored: a prefix, up to MaxParams query fields joined by     *)
(* "&" after a "?", and a fragment.                                        *)
(***************************************************************************)
UrlPrefixes ==
    {<<"H", "T", "T", "P", ":", "/", "/", "a", ".", "b">>,
     <<"/", "/", "/", "/">>,
     <<"h", "t", "t", "p", ":", "/", "/", "[", "a", "/", "p">>,
     <<"h", "t", "t", "p", ":", "/", "/", "[", ":", ":", "1", "]", "/", "p", ";", "x">>,
     <<>>,
     <<" ", "\t", "h", "t", "t", "p", ":", "/", "/", "a", "/", "p">>}

\* A tracking key, one spelt with an escape and a capital, a kept field with
\* "+" and escapes, a look-alike key without "=", and an empty field.
RawFields ==
    {<<"u", "t", "m", "_", "s", "=", "1">>,
     <<"%", "4", "6", "b", "c", "l", "i", "d", "=", "3">>,
     <<"a", "=", "+", "%", "2", "6", "%", "F", "F">>,
     <<"u", "t", "m">>,
     <<>>}

UrlFragments ==
    {<<>>,
     <<"#", "f", "?", "u", "t", "m", "_", "s", "=", "1">>}

FieldLists == UNION {[1..n -> RawFields] : n \in 0..MaxParams}

MakeUrl(prefix, fields, fragment) ==
    prefix \o (IF fields = <<>> THEN <<>> ELSE <<"?">> \o Join(fields, "&")) \o fragment

UrlInputs == {MakeUrl(p, fs, f) : p \in UrlPrefixes, fs \in FieldLists, f \in UrlFragments}

(***************************************************************************)
(* Specification of the normalizer: one URL, normalized once, then again.  *)
(***************************************************************************)
NormInit ==
    /\ nUrl \in UrlInputs
    /\ nOnce = <<>>
    /\ nTwice = <<>>
    /\ nPc = "start"

NormalizeOnce ==
    /\ nPc = "start"
    /\ nOnce' = _normalize_url(nUrl)
    /\ nPc' = "once"
    /\ UNCHANGED <<nUrl, nTwice>>

NormalizeTwice ==
    /\ nPc = "once"
    /\ nTwice' = _normalize_url(nOnce)
    /\ nPc' = "twice"
    /\ UNCHANGED <<nUrl, nOnce>>

NormIdle == nUrl = <<>> /\ nOnce = <<>> /\ nTwice = <<>> /\ nPc = "idle"


(***************************************************************************)
(* Claims about _normalize_url (checked under SpecNorm).                   *)
(***************************************************************************)
\* The query string of a URL as a reader of the URL sees it: what follows the
\* first "?" of the part before the first "#".
QueryStringOf(u) ==
    LET h == Find(u, "#", 1)
        beforeFragment == IF h = 0 THEN u ELSE SubSeq(u, 1, h - 1)
        q == Find(beforeFragment, "?", 1)
    IN  IF q = 0 THEN <<>> ELSE Drop(beforeFragment, q)

\* Its decoded (key, value) parameters, in order.
ParamsOf(u) == parse_qsl(QueryStringOf(u))

\* A tracking key as the specification words it: case-insensitively, the key
\* starts with utm_ or is one of fbclid, gclid, igshid, mc_cid, mc_eid.
TrackingKeyAsSpecified(k) ==
    \/ /\ Len(k) >= 4
       /\ k[1] \in {"u", "U"} /\ k[2] \in {"t", "T"} /\ k[3] \in {"m", "M"} /\ k[4] = "_"
    \/ \E name \in {S_fbclid, S_gclid, S_igshid, S_mc_cid, S_mc_eid} :
          /\ Len(k) = Len(name)
          /\ \A i \in 1..Len(k) : LowerChar(k[i]) = name[i]

NoTrackingParams(u) ==
    \A i \in 1..Len(ParamsOf(u)) : ~TrackingKeyAsSpecified(ParamsOf(u)[i][1])

NonTrackingParams(u) ==
    SelectSeq(ParamsOf(u), LAMBDA kv : ~TrackingKeyAsSpecified(kv[1]))

\* C2 as claimed: for every URL u the query string of _normalize_url(u) holds no
\* tracking parameter, and the non-tracking parameters of u appear in the result
\* in their original relative order.
C2_NoTrackingForEveryUrl ==
    nPc # "start" =>
        /\ NoTrackingParams(nOnce)
        /\ ParamsOf(nOnce) = NonTrackingParams(nUrl)

\* C2 as amended: for every URL u that urlparse accepts, the query string of
\* _normalize_url(u) holds no tracking parameter and its parameters are the
\* non-tracking parameters of u in their original order; a URL that urlparse
\* rejects (a malformed bracketed host) is returned unchanged, tracking
\* parameters included.
C2_NoTrackingWhenParsed ==
    nPc # "start" =>
        IF urlparse(nUrl).ok
        THEN /\ NoTrackingParams(nOnce)
             /\ ParamsOf(nOnce) = NonTrackingParams(nUrl)
        ELSE nOnce = nUrl

\* A parsed URL with tracking parameters around two surviving parameters.
C2_Witness ==
    /\ nPc = "once"
    /\ urlparse(nUrl).ok
    /\ ~NoTrackingParams(nUrl)
    /\ Len(ParamsOf(nOnce)) = 2
    /\ ParamsOf(nOnce)[1] # ParamsOf(nOnce)[2]
    /\ nOnce # nUrl

\* C9: for every URL u, _normalize_url(_normalize_url(u)) = _normalize_url(u).
C9_Idempotent == nPc = "twice" => nTwice = nOnce


(***************************************************************************)
(* _fetch_url                                                              *)
(***************************************************************************)
S_text_html == <<"t", "e", "x", "t", "/", "h", "t", "m", "l">>
S_doctype_html == <<"<", "!", "d", "o", "c", "t", "y", "p", "e", " ", "h", "t", "m", "l">>
S_html_tag == <<"<", "h", "t", "m", "l">>

\* b[:200] on line 109.
HeadLen == 200

\* The characters str.lstrip() and str.strip() remove, and \s matches.
Whitespace == {" ", "\t", "\n", "\r"}

\* p in s, for strings.
IsSubstring(p, s) == \E i \in 0..(Len(s) - Len(p)) : SubSeq(s, i + 1, i + Len(p)) = p

\* Line 109: the first 200 bytes, newlines and carriage returns made spaces.
HeadOf(b) == ReplaceChar(ReplaceChar(Take(b, HeadLen), "\n", " "), "\r", " ")

LooksLikeHtml_HeaderOnly(ct, head) == IsSubstring(S_text_html, ct)

\* Line 116: the HTML check on the lowercased header and the head of the body.
LooksLikeHtml(ct, head) ==
    \/ IsSubstring(S_text_html, ct)
    \/ StartsWith(LStrip(head, Whitespace), S_doctype_html)
    \/ StartsWith(LStrip(head, Whitespace), S_html_tag)

NoData == [some |-> FALSE, bytes |-> <<>>]
Data(b) == [some |-> TRUE, bytes |-> b]

\* A response of requests.get: raised = TRUE for any exception it raises (a
\* connection error, a timeout); ct is the Content-Type header ("" when absent).
_fetch_url(resp) ==
    IF resp.raised THEN NoData
    ELSE LET ct == lower(resp.ct)
             b == resp.body
         IN  IF LooksLikeHtml(ct, HeadOf(b)) THEN NoData
             ELSE IF 200 <= resp.status /\ resp.status < 300 /\ b # <<>> THEN Data(b)
             ELSE NoData

(***************************************************************************)
(* The responses explored: status, Content-Type, and a body made of        *)
(* leading blanks, a leading marker and a tail.                            *)
(***************************************************************************)
StatusSamples == {199, 200, 204, 299, 300, 404, 503}

ContentTypeSamples ==
    {<<>>,
     <<"t", "e", "x", "t", "/", "x", "m", "l">>,
     <<"T", "E", "X", "T", "/", "H", "T", "M", "L", ";", " ", "q">>,
     <<"t", "e", "x", "t", "/", "h", "t", "m">>}

\* How many blanks lead the body: none, a few, and around the 200-byte cut.
PadSamples == {0, 1, 186, 187, 195, 200}

BodyMarkers ==
    {<<>>,
     <<"<", "!", "d", "o", "c", "t", "y", "p", "e", " ", "h", "t", "m", "l", ">">>,
     <<"<", "!", "D", "O", "C", "T", "Y", "P", "E", " ", "h", "t", "m", "l", ">">>,
     <<"<", "h", "t", "m", "l", ">">>,
     <<"<", "?", "x", "m", "l", "?", ">">>,
     <<"\n", "<", "h", "t", "m", "l", ">">>}

Blanks(n) == [i \in 1..n |-> " "]

BodySamples == {Blanks(n) \o m : n \in PadSamples, m \in BodyMarkers}

RaisedResponse == [raised |-> TRUE, status |-> 0, ct |-> <<>>, body |-> <<>>]

ResponseSamples ==
    {RaisedResponse} \cup
    {[raised |-> FALSE, status |-> st, ct |-> ct, body |-> b] :
        st \in StatusSamples, ct \in ContentTypeSamples, b \in BodySamples}


(***************************************************************************)
(* Specification of the fetcher: one response, one call.                   *)
(***************************************************************************)
FetchInit ==
    /\ fResp \in ResponseSamples
    /\ fResult = NoData
    /\ fPc = "start"

FetchUrl ==
    /\ fPc = "start"
    /\ fResult' = _fetch_url(fResp)
    /\ fPc' = "returned"
    /\ UNCHANGED fResp

FetchIdle == fResp = RaisedResponse /\ fResult = NoData /\ fPc = "idle"


(***************************************************************************)
(* Claims about _fetch_url (checked under SpecFetch).                      *)
(***************************************************************************)
\* The Content-Type header names text/html, in any letter case.
HeaderMarksHtml(ct) ==
    \E i \in 0..(Len(ct) - 9) :
        [j \in 1..9 |-> LowerChar(ct[i + j])] = <<"t", "e", "x", "t", "/", "h", "t", "m", "l">>

\* The first 200 bytes of the body hold, after leading blanks only, the whole
\* of "<!doctype html" or "<html".
BodyHeadMarksHtml(b) ==
    \E k \in 0..HeadLen :
        /\ \A j \in 1..k : j <= Len(b) /\ b[j] \in Whitespace
        /\ \E m \in {<<"<", "!", "d", "o", "c", "t", "y", "p", "e", " ", "h", "t", "m", "l">>, <<"<", "h", "t", "m", "l">>} :
              /\ k + Len(m) <= HeadLen
              /\ k + Len(m) <= Len(b)
              /\ \A j \in 1..Len(m) : b[k + j] = m[j]

\* C5: a response whose body starts with <!doctype html> yields no data,
\* whatever its content-type and status; the body is returned only when the
\* status is in [200,300), the body is non-empty, and neither the content-type
\* header nor the first 200 bytes of the body mark the response as HTML.
C5_HtmlSniffedNoData ==
    fPc = "returned" =>
        /\ (~fResp.raised /\ StartsWith(fResp.body, <<"<", "!", "d", "o", "c", "t", "y", "p", "e", " ", "h", "t", "m", "l", ">">>)
                => fResult = NoData)
        /\ (fResult.some =>
                /\ ~fResp.raised
                /\ fResult.bytes = fResp.body
                /\ fResp.status \in 200..299
                /\ fResp.body # <<>>
                /\ ~HeaderMarksHtml(fResp.ct)
                /\ ~BodyHeadMarksHtml(fResp.body))

\* A 200 response declared as XML whose body starts with <!doctype html>.
C5_Witness ==
    /\ fPc = "returned"
    /\ ~fResp.raised
    /\ fResp.status = 200
    /\ ~HeaderMarksHtml(fResp.ct)
    /\ StartsWith(fResp.body, <<"<", "!", "d", "o", "c", "t", "y", "p", "e", " ", "h", "t", "m", "l", ">">>)
    /\ fResult = NoData


(***************************************************************************)
(* _clean_text                                                             *)
(***************************************************************************)
S_amp == <<"&", "a", "m", "p", ";">>
S_lt == <<"&", "l", "t", ";">>
S_gt == <<"&", "g", "t", ";">>

\* html.unescape, for the entities &amp; &lt; &gt; (one pass, left to right).
RECURSIVE html_unescape(_)
html_unescape(s) ==
    IF s = <<>> THEN <<>>
    ELSE IF StartsWith(s, S_amp) THEN <<"&">> \o html_unescape(Drop(s, Len(S_amp)))
    ELSE IF StartsWith(s, S_lt) THEN <<"<">> \o html_unescape(Drop(s, Len(S_lt)))
    ELSE IF StartsWith(s, S_gt) THEN <<">">> \o html_unescape(Drop(s, Len(S_gt)))
    ELSE <<s[1]>> \o html_unescape(Tail(s))

\* re.sub(r"<[^>]+>", " ", s): "<", at least one character other than ">", ">".
RECURSIVE StripTags(_)
StripTags(s) ==
    IF s = <<>> THEN <<>>
    ELSE IF s[1] = "<" /\ Find(s, ">", 2) > 2
         THEN <<" ">> \o StripTags(Drop(s, Find(s, ">", 2)))
         ELSE <<s[1]>> \o StripTags(Tail(s))

\* re.sub(r"\s+", " ", s): every run of whitespace becomes one space.
RECURSIVE CollapseWhitespace(_)
CollapseWhitespace(s) ==
    IF s = <<>> THEN <<>>
    ELSE IF s[1] \in Whitespace
         THEN <<" ">> \o CollapseWhitespace(LStrip(s, Whitespace))
         ELSE <<s[1]>> \o CollapseWhitespace(Tail(s))

\* str.strip()
Strip(s) ==
    LET keep == {i \in 1..Len(s) : s[i] \notin Whitespace}
    IN  IF keep = {} THEN <<>>
        ELSE SubSeq(s, CHOOSE i \in keep : \A j \in keep : i <= j,
                       CHOOSE i \in keep : \A j \in keep : i >= j)

_clean_text(s) ==
    IF s = <<>> THEN <<>>
    ELSE Strip(CollapseWhitespace(StripTags(html_unescape(s))))

(***************************************************************************)
(* fetch_rss_items                                                         *)
(***************************************************************************)
\* _hash(link): the first 16 hex digits of the SHA-256 of the link, kept as the
\* digest's name and its argument (no claim reads the digits).
_hash(link) == <<"sha256[:16]">> \o link

\* Lines 152-170: the item of a parsed entry.  An attribute feedparser does not
\* set is the empty string, as getattr's default.
MakeItem(url, e, link) ==
    [source_feed |-> url,
     title |-> _clean_text(e.title),
     link |-> link,
     summary |-> _clean_text(IF e.summary # <<>> THEN e.summary ELSE e.description),
     published |-> IF e.published # <<>> THEN e.published ELSE e.updated,
     id |-> _hash(link)]

ItemOf(url, e) == MakeItem(url, e, _normalize_url(e.link))

\* Line 158: an entry without a title or a link is skipped.
AcceptItem(it) == it.title # <<>> /\ it.link # <<>>

\* Lines 138-172 for one feed: nothing when the fetch gave no data or when
\* feedparser.parse raised; else the accepted items of the first
\* max_items_per_feed entries.
ItemsOfFeed(feed, max_items_per_feed) ==
    LET raw == _fetch_url(feed.resp)
    IN  IF ~raw.some \/ feed.parseRaises THEN <<>>
        ELSE SelectSeq([i \in 1..Len(Take(feed.entries, max_items_per_feed)) |->
                            ItemOf(feed.url, feed.entries[i])],
                       AcceptItem)

\* Lines 136-172: the items of all the feeds, in feed order.
RECURSIVE CollectItems_StopAtFailure(_, _)
CollectItems_StopAtFailure(feeds, max_items_per_feed) ==
    IF feeds = <<>> \/ ItemsOfFeed(feeds[1], max_items_per_feed) = <<>> THEN <<>>
    ELSE ItemsOfFeed(feeds[1], max_items_per_feed)
         \o CollectItems_StopAtFailure(Tail(feeds), max_items_per_feed)

RECURSIVE CollectItems(_, _)
CollectItems(feeds, max_items_per_feed) ==
    IF feeds = <<>> THEN <<>>
    ELSE ItemsOfFeed(feeds[1], max_items_per_feed)
         \o CollectItems(Tail(feeds), max_items_per_feed)

Dedup_KeepAll(items) == items

\* Lines 175-181: an item whose link was seen already is skipped.
Dedup(items) ==
    LET firstOfLink(i) == \A j \in 1..(i - 1) : items[j].link # items[i].link
        RECURSIVE Keep(_)
        Keep(i) == IF i > Len(items) THEN <<>>
                   ELSE (IF firstOfLink(i) THEN <<items[i]>> ELSE <<>>) \o Keep(i + 1)
    IN  Keep(1)

\* a < b for strings, as Python orders them (by code point, a prefix first).
StrLess(a, b) ==
    \E i \in 1..(Len(b)) :
        /\ \A j \in 1..(i - 1) : j <= Len(a) /\ a[j] = b[j]
        /\ (i > Len(a) \/ (i <= Len(a) /\ Ord(a[i]) < Ord(b[i])))

\* Line 184: the sort key (0 if the item has a summary else 1, published).
SortFlag(it) == IF it.summary # <<>> THEN 0 ELSE 1

KeyLess(a, b) ==
    \/ SortFlag(a) < SortFlag(b)
    \/ SortFlag(a) = SortFlag(b) /\ StrLess(a.published, b.published)

\* list.sort is stable: an item goes after every item whose key is not greater.
RECURSIVE SortItems(_)
SortItems(items) ==
    IF items = <<>> THEN <<>>
    ELSE LET rest == SortItems(SubSeq(items, 1, Len(items) - 1))
             x == items[Len(items)]
             before == {i \in 1..Len(rest) : KeyLess(x, rest[i])}
             at == IF before = {} THEN Len(rest) + 1
                   ELSE CHOOSE i \in before : \A j \in before : i <= j
         IN  SubSeq(rest, 1, at - 1) \o <<x>> \o SubSeq(rest, at, Len(rest))

Truncate_None(items, max_items_total) == items

\* Line 186: dedup[:max_items_total], for a cap >= 0.
Truncate(items, max_items_total) == Take(items, max_items_total)

\* Lines 174-186: what becomes of the collected items.
RankItems(items, max_items_total) == Truncate(SortItems(Dedup(items)), max_items_total)

fetch_rss_items(feeds, max_items_per_feed, max_items_total) ==
    RankItems(CollectItems(feeds, max_items_per_feed), max_items_total)

(***************************************************************************)
(* The feeds explored.  A feed is what the network and feedparser do for   *)
(* its URL: the response, whether feedparser.parse raises, the entries.    *)
(***************************************************************************)
MaxEntries == 2
MaxTotalCap == 3

\* len(DEFAULT_RSS_POLITICS), the longest configured feed list.
NumFeedsPolitics == 2

EntrySamples ==
    {[title |-> <<"T", "1">>, link |-> <<"h", "t", "t", "p", ":", "/", "/", "a", "/", "x", "?", "u", "t", "m", "_", "s", "=", "1">>, summary |-> <<>>,
      description |-> <<>>, published |-> <<"2">>, updated |-> <<>>],
     [title |-> <<"<", "b", ">", "T", "2", "<", "/", "b", ">">>, link |-> <<"h", "t", "t", "p", ":", "/", "/", "a", "/", "x">>, summary |-> <<"S", " ", "&", "a", "m", "p", ";", " ", "s">>,
      description |-> <<>>, published |-> <<"1">>, updated |-> <<>>],
     [title |-> <<"T", "3", " ", "\n", " ", "x">>, link |-> <<"h", "t", "t", "p", ":", "/", "/", "a", "/", "y", "?", "a", "=", "1", "&", "F", "b", "c", "l", "i", "d", "=", "2">>, summary |-> <<>>,
      description |-> <<"<", "p", ">", "D", "<", "/", "p", ">">>, published |-> <<>>, updated |-> <<"1">>],
     [title |-> <<"&", "l", "t", ";", "b", "r", "&", "g", "t", ";">>, link |-> <<"h", "t", "t", "p", ":", "/", "/", "a", "/", "z">>, summary |-> <<"S">>,
      description |-> <<>>, published |-> <<>>, updated |-> <<>>],
     [title |-> <<"T", "5">>, link |-> <<"?", "u", "t", "m", "_", "s", "=", "1">>, summary |-> <<"S">>,
      description |-> <<>>, published |-> <<>>, updated |-> <<>>],
     [title |-> <<"T", "1">>, link |-> <<"h", "t", "t", "p", ":", "/", "/", "[", "a", "/", "?", "u", "t", "m", "_", "s", "=", "1">>, summary |-> <<>>,
      description |-> <<>>, published |-> <<"2">>, updated |-> <<>>]}

EntryLists == UNION {[1..n -> EntrySamples] : n \in 0..MaxEntries}

FeedBody == <<"<", "?", "x", "m", "l", "?", ">", "<", "r", "s", "s", "/", ">">>
HtmlBody == <<"<", "!", "d", "o", "c", "t", "y", "p", "e", " ", "h", "t", "m", "l", ">", "<", "p", ">", "b", "l", "o", "c", "k", "e", "d">>

OkResponse == [raised |-> FALSE, status |-> 200, ct |-> <<"t", "e", "x", "t", "/", "x", "m", "l">>, body |-> FeedBody]

\* The failing outcomes of one feed: the fetch raises (a network error, a
\* timeout), a non-2xx status, an HTML body behind a 200, an empty body.
FailedResponses ==
    {RaisedResponse,
     [OkResponse EXCEPT !.status = 503],
     [OkResponse EXCEPT !.body = HtmlBody],
     [OkResponse EXCEPT !.body = <<>>]}

S_feed == <<"f", "e", "e", "d">>
FeedUrl(n) == S_feed \o <<Chr(48 + n)>>

FeedOutcomes(n) ==
    {[url |-> FeedUrl(n), resp |-> r, parseRaises |-> FALSE, entries |-> <<>>] :
        r \in FailedResponses}
    \cup {[url |-> FeedUrl(n), resp |-> OkResponse, parseRaises |-> TRUE, entries |-> <<>>]}
    \cup {[url |-> FeedUrl(n), resp |-> OkResponse, parseRaises |-> FALSE, entries |-> es] :
            es \in EntryLists}

(***************************************************************************)
(* Specification of fetch_rss_items: the feeds are fetched and parsed one  *)
(* after another, then the items are deduplicated, ranked and truncated.   *)
(***************************************************************************)
ItemsInit ==
    /\ iPerFeed \in 1..MaxEntries
    /\ iFeedNo = 0
    /\ iItems = <<>>
    /\ iCap = 0
    /\ iResult = <<>>
    /\ iPc = "loop"

ProcessFeed ==
    /\ iPc = "loop"
    /\ iFeedNo < NumFeedsPolitics
    /\ \E feed \in FeedOutcomes(iFeedNo + 1) :
          iItems' = iItems \o ItemsOfFeed(feed, iPerFeed)
    /\ iFeedNo' = iFeedNo + 1
    /\ UNCHANGED <<iPerFeed, iCap, iResult, iPc>>

ReturnItems ==
    /\ iPc = "loop"
    /\ iFeedNo = NumFeedsPolitics
    /\ \E cap \in 0..MaxTotalCap :
          /\ iCap' = cap
          /\ iResult' = RankItems(iItems, cap)
    /\ iPc' = "returned"
    /\ UNCHANGED <<iPerFeed, iFeedNo, iItems>>

ItemsIdle ==
    iPerFeed = 0 /\ iFeedNo = 0 /\ iItems = <<>> /\ iCap = 0 /\ iResult = <<>> /\ iPc = "idle"


(***************************************************************************)
(* Claims about fetch_rss_items (checked under SpecItems).                 *)
(***************************************************************************)
\* C7: for all feed contents and every cap max_items_total >= 0,
\* fetch_rss_items returns at most max_items_total items, and every returned
\* item has a non-empty title and a non-empty link.
C7_AtMostCapNonEmpty ==
    iPc = "returned" =>
        /\ Len(iResult) <= iCap
        /\ \A i \in 1..Len(iResult) : Len(iResult[i].title) > 0 /\ Len(iResult[i].link) > 0

\* More distinct links were collected than the cap allows, and the cap is met.
C7_Witness ==
    /\ iPc = "returned"
    /\ iCap >= 1
    /\ Cardinality({iItems[i].link : i \in 1..Len(iItems)}) > iCap
    /\ Len(iResult) = iCap

\* C8: no two returned items share a normalized link, even when an article
\* appears in several feeds or several times in one feed with links that differ
\* only by tracking parameters; of the duplicates, the first occurrence in feed
\* order is the one considered for the result.
C8_NoSharedLink ==
    iPc = "returned" =>
        /\ \A i, j \in 1..Len(iResult) : i # j => iResult[i].link # iResult[j].link
        /\ \A i \in 1..Len(iResult) :
              \E k \in 1..Len(iItems) :
                  /\ iItems[k] = iResult[i]
                  /\ \A m \in 1..(k - 1) : iItems[m].link # iResult[i].link

\* Two different entries of two feeds share a normalized link; the first is returned.
C8_Witness ==
    /\ iPc = "returned"
    /\ \E k, m \in 1..Len(iItems) :
          /\ k < m
          /\ iItems[k].link = iItems[m].link
          /\ iItems[k].title # iItems[m].title
          /\ iItems[k].source_feed # iItems[m].source_feed
          /\ \A n \in 1..(k - 1) : iItems[n].link # iItems[k].link
          /\ \E i \in 1..Len(iResult) : iResult[i] = iItems[k]


(***************************************************************************)
(* JSON values, as json.loads returns them: each value carries its Python  *)
(* type, so that isinstance and the methods a type lacks can be modelled.  *)
(***************************************************************************)
JNull == [t |-> "null"]
JInt(n) == [t |-> "int", n |-> n]
JStr(s) == [t |-> "str", s |-> s]
JList(items) == [t |-> "list", items |-> items]
\* A dict is its (key, value) pairs in insertion order, keys distinct.
JDict(pairs) == [t |-> "dict", pairs |-> pairs]

K_content == <<"c", "o", "n", "t", "e", "n", "t">>
K_type == <<"t", "y", "p", "e">>
K_text == <<"t", "e", "x", "t">>
K_output == <<"o", "u", "t", "p", "u", "t">>
K_message == <<"m", "e", "s", "s", "a", "g", "e">>
K_completion == <<"c", "o", "m", "p", "l", "e", "t", "i", "o", "n">>
K_output_text == <<"o", "u", "t", "p", "u", "t", "_", "t", "e", "x", "t">>

HasKey(d, k) == \E i \in 1..Len(d.pairs) : d.pairs[i][1] = k

Lookup(d, k) == d.pairs[CHOOSE i \in 1..Len(d.pairs) : d.pairs[i][1] = k][2]

\* dict.get(k, default)
Get(d, k, default) == IF HasKey(d, k) THEN Lookup(d, k) ELSE default

\* Whether a for loop over the value raises TypeError (None, int), and what it
\* yields otherwise: the items of a list, the characters of a str, the keys of
\* a dict.
Iterable(v) == v.t \in {"list", "str", "dict"}

IterItems(v) ==
    IF v.t = "list" THEN v.items
    ELSE IF v.t = "str" THEN [i \in 1..Len(v.s) |-> JStr(<<v.s[i]>>)]
    ELSE [i \in 1..Len(v.pairs) |-> JStr(v.pairs[i][1])]

(***************************************************************************)
(* json.dumps(payload, ensure_ascii=False)                                 *)
(***************************************************************************)
S_null == <<"n", "u", "l", "l">>

RECURSIVE Digits(_)
Digits(n) == IF n < 10 THEN <<Chr(48 + n)>> ELSE Digits(n \div 10) \o <<Chr(48 + (n % 10))>>

EscapeJsonChar(c) ==
    IF c = "<DQUOTE>" THEN <<"<BACKSLASH>", "<DQUOTE>">>
    ELSE IF c = "<BACKSLASH>" THEN <<"<BACKSLASH>", "<BACKSLASH>">>
    ELSE IF c = "\n" THEN <<"<BACKSLASH>", "n">>
    ELSE IF c = "\t" THEN <<"<BACKSLASH>", "t">>
    ELSE IF c = "\r" THEN <<"<BACKSLASH>", "r">>
    ELSE <<c>>

RECURSIVE Flatten(_)
Flatten(parts) == IF parts = <<>> THEN <<>> ELSE parts[1] \o Flatten(Tail(parts))

DumpsStr(s) ==
    <<"<DQUOTE>">> \o Flatten([i \in 1..Len(s) |-> EscapeJsonChar(s[i])]) \o <<"<DQUOTE>">>

\* ", ".join(parts)
RECURSIVE JoinComma(_)
JoinComma(parts) ==
    IF parts = <<>> THEN <<>>
    ELSE IF Len(parts) = 1 THEN parts[1]
    ELSE parts[1] \o <<",", " ">> \o JoinComma(Tail(parts))

RECURSIVE Dumps(_)
Dumps(v) ==
    IF v.t = "null" THEN S_null
    ELSE IF v.t = "int" THEN Digits(v.n)
    ELSE IF v.t = "str" THEN DumpsStr(v.s)
    ELSE IF v.t = "list"
         THEN <<"[">> \o JoinComma([i \in 1..Len(v.items) |-> Dumps(v.items[i])]) \o <<"]">>
    ELSE <<"{">>
         \o JoinComma([i \in 1..Len(v.pairs) |->
                          DumpsStr(v.pairs[i][1]) \o <<":", " ">> \o Dumps(v.pairs[i][2])])
         \o <<"}">>

(***************************************************************************)
(* bedrock_summarize_and_translate, lines 244-280: the text of a decoded   *)
(* response payload.                                                       *)
(***************************************************************************)
Raised == [raised |-> TRUE, out |-> <<>>]
Returned(out) == [raised |-> FALSE, out |-> out]

\* "\n".join(parts).strip()
JoinedText(parts) == Strip(Join(parts, "\n"))

\* Lines 254-258: the text of a content block, if it is a text block.
IsTextBlock(b) ==
    /\ b.t = "dict"
    /\ Get(b, K_type, JNull) = JStr(K_text)
    /\ Get(b, K_text, JStr(<<>>)).t = "str"
    /\ Get(b, K_text, JStr(<<>>)).s # <<>>

TextBlocks(blocks) == SelectSeq(blocks, IsTextBlock)

\* Lines 251-259: out after shape 1.
ContentText(payload) ==
    IF Get(payload, K_content, JNull).t = "list"
    THEN JoinedText([i \in 1..Len(TextBlocks(Get(payload, K_content, JNull).items)) |->
                        Lookup(TextBlocks(Get(payload, K_content, JNull).items)[i], K_text).s])
    ELSE <<>>

\* Line 265: a block with a str under "text".
HasTextField(b) == b.t = "dict" /\ HasKey(b, K_text) /\ Lookup(b, K_text).t = "str"

\* Line 264: payload.get("output", {}).get("message", {}).get("content", []).
\* ok = FALSE: a .get on a value that is no dict raised AttributeError.
OutputValue(payload) == Get(payload, K_output, JDict(<<>>))

MessageValue(output) == Get(output, K_message, JDict(<<>>))

MessageContent(payload) ==
    IF OutputValue(payload).t # "dict" THEN [ok |-> FALSE, v |-> JNull]
    ELSE IF MessageValue(OutputValue(payload)).t # "dict" THEN [ok |-> FALSE, v |-> JNull]
    ELSE [ok |-> TRUE, v |-> Get(MessageValue(OutputValue(payload)), K_content, JList(<<>>))]

NestedBlocks(content) == SelectSeq(IterItems(content), HasTextField)

NestedText(content) ==
    JoinedText([i \in 1..Len(NestedBlocks(content)) |-> Lookup(NestedBlocks(content)[i], K_text).s])

\* Lines 270-274: out after shape 3.
FlatText(payload) ==
    IF Get(payload, K_completion, JNull).t = "str"
    THEN Strip(Get(payload, K_completion, JNull).s)
    ELSE IF Get(payload, K_output_text, JNull).t = "str"
         THEN Strip(Get(payload, K_output_text, JNull).s)
         ELSE <<>>

\* Lines 270-278.
FlatOrDump(payload) ==
    IF FlatText(payload) # <<>> THEN Returned(FlatText(payload))
    ELSE Returned(Dumps(payload))

\* Lines 262-278 once line 264's value is known.
AfterNested(payload, mc) ==
    IF ~mc.ok \/ ~Iterable(mc.v) THEN Raised
    ELSE IF NestedText(mc.v) # <<>> THEN Returned(NestedText(mc.v))
    ELSE FlatOrDump(payload)

\* Lines 244-280.  payload.get on a payload that is no dict raises.
ParseModelResponse(payload) ==
    IF payload.t # "dict" THEN Raised
    ELSE IF ContentText(payload) # <<>> THEN Returned(ContentText(payload))
    ELSE AfterNested(payload, MessageContent(payload))


(***************************************************************************)
(* Decoded response payloads: every combination of a "content", an         *)
(* "output", a "completion" and an "output_text" member, each absent or of *)
(* one of several JSON types, and payloads that are no JSON object.        *)
(***************************************************************************)
Absent == [present |-> FALSE, v |-> JNull]
Present(v) == [present |-> TRUE, v |-> v]
Member(k, o) == IF o.present THEN << <<k, o.v>> >> ELSE <<>>

S_tool_use == <<"t", "o", "o", "l", "_", "u", "s", "e">>
TextBlock(text) == JDict(<< <<K_type, JStr(K_text)>>, <<K_text, JStr(text)>> >>)
ToolBlock == JDict(<< <<K_type, JStr(S_tool_use)>>, <<K_text, JStr(<<"T">>)>> >>)
BareText(text) == JDict(<< <<K_text, text>> >>)

ContentOptions ==
    { Absent, Present(JNull), Present(JStr(<<"x">>)), Present(JList(<<>>)),
      Present(JList(<<TextBlock(<<"A">>)>>)),
      Present(JList(<<TextBlock(<<" ", "A", "\n">>), ToolBlock, TextBlock(<<"B">>)>>)),
      Present(JList(<<TextBlock(<<" ">>)>>)),
      Present(JList(<<JStr(<<"x">>), BareText(JInt(7)), TextBlock(<<>>), JNull>>)) }

MessageOf(content) == JDict(<< <<K_message, JDict(Member(K_content, content))>> >>)

OutputOptions ==
    { Absent, Present(JNull), Present(JStr(<<"x">>)), Present(JList(<<>>)),
      Present(JDict(<<>>)),
      Present(JDict(<< <<K_message, JNull>> >>)),
      Present(JDict(<< <<K_message, JStr(<<"m">>)>> >>)),
      Present(MessageOf(Absent)),
      Present(MessageOf(Present(JNull))),
      Present(MessageOf(Present(JInt(5)))),
      Present(MessageOf(Present(JStr(<<"x", "y">>)))),
      Present(MessageOf(Present(JList(<<>>)))),
      Present(MessageOf(Present(BareText(JStr(<<"B">>))))),
      Present(MessageOf(Present(JList(<<BareText(JStr(<<"\n">>))>>)))),
      Present(MessageOf(Present(JList(
          <<BareText(JStr(<<"B">>)), BareText(JInt(3)), JStr(<<"s">>), JDict(<<>>),
            BareText(JStr(<<"C", " ">>))>>)))) }

CompletionOptions ==
    { Absent, Present(JStr(<<" ", "C">>)), Present(JStr(<<" ">>)), Present(JInt(5)) }

OutputTextOptions == { Absent, Present(JStr(<<"O", "\t">>)) }

ObjectPayloads ==
    { JDict(Member(K_content, c) \o Member(K_output, o)
            \o Member(K_completion, k) \o Member(K_output_text, t)) :
        c \in ContentOptions, o \in OutputOptions,
        k \in CompletionOptions, t \in OutputTextOptions }

PayloadSamples ==
    ObjectPayloads \cup { JNull, JInt(0), JStr(<<"x">>), JList(<<TextBlock(<<"A">>)>>) }

\* One journey of a payload through the parser.
SummarizeInit ==
    /\ sPayload \in PayloadSamples
    /\ sResult = Raised
    /\ sPc = "decoded"

ParseResponse ==
    /\ sPc = "decoded"
    /\ sResult' = ParseModelResponse(sPayload)
    /\ sPc' = "parsed"
    /\ UNCHANGED sPayload

SummarizeIdle ==
    /\ sPayload = JNull
    /\ sResult = Raised
    /\ sPc = "idle"

(***************************************************************************)
(* Claims about the response parser                                        *)
(***************************************************************************)
\* The text each shape yields, read off the payload without regard to what
\* the lookups do on values of another type.
Shape1Text(payload) ==
    IF payload.t = "dict" THEN ContentText(payload) ELSE <<>>

Shape2Text(payload) ==
    IF /\ payload.t = "dict"
       /\ MessageContent(payload).ok
       /\ Iterable(MessageContent(payload).v)
    THEN NestedText(MessageContent(payload).v)
    ELSE <<>>

Shape3Text(payload) ==
    IF payload.t = "dict" THEN FlatText(payload) ELSE <<>>

FallbackText(payload) ==
    IF Shape1Text(payload) # <<>> THEN Shape1Text(payload)
    ELSE IF Shape2Text(payload) # <<>> THEN Shape2Text(payload)
    ELSE IF Shape3Text(payload) # <<>> THEN Shape3Text(payload)
    ELSE Dumps(payload)

\* C4: for every decoded payload the parser returns the text of the first
\* shape, in the order content blocks, output.message.content blocks,
\* completion/output_text, that yields non-empty text, and the JSON dump of
\* the whole payload when none does.
C4_FallbackOrder ==
    sPc = "parsed" => /\ ~sResult.raised
                      /\ sResult.out = FallbackText(sPayload)

\* The same, for the payloads on which the parser returns at all.
C4_FallbackOrderWhenReturned ==
    (sPc = "parsed" /\ ~sResult.raised) => sResult.out = FallbackText(sPayload)


(***************************************************************************)
(* build_daily_markdown and put_to_s3.  A character outside ASCII is       *)
(* written as its code point, "<U+653F>".                                  *)
(***************************************************************************)
Pad2(n) == IF n < 10 THEN <<"0">> \o Digits(n) ELSE Digits(n)

Pad4(n) ==
    IF n < 10 THEN <<"0", "0", "0">> \o Digits(n)
    ELSE IF n < 100 THEN <<"0", "0">> \o Digits(n)
    ELSE IF n < 1000 THEN <<"0">> \o Digits(n)
    ELSE Digits(n)

\* date.strftime("%Y_%m_%d")
FormatDate(d) == Pad4(d.year) \o <<"_">> \o Pad2(d.month) \o <<"_">> \o Pad2(d.day)

S_h1_open == <<"#", " ", "T", "h", "a", "i", "l", "a", "n", "d", " ", "D", "a", "i", "l", "y", " ", "N", "e", "w", "s", " ", "(">>
S_h1_close == <<")", "\n", "\n">>
S_toc_heading == <<"#", "#", " ", "<U+76EE>", "<U+6B21>", "\n">>
S_h2 == <<"#", "#", " ">>
S_rule == <<"\n", "\n", "-", "-", "-", "\n", "\n">>

\* Line 286: f"- [{title}](#{title})"
TocEntry(title) == <<"-", " ", "[">> \o title \o <<"]", "(", "#">> \o title \o <<")">>

\* Line 289: f"## {title}\n\n{md}\n\n---\n\n"
SectionText(section) ==
    S_h2 \o section.title \o <<"\n", "\n">> \o section.md \o S_rule

TocText_Omitted(sections) == <<>>

\* Line 286: the table of contents, under an H2 heading of its own.
TocText(sections) ==
    S_toc_heading
    \o Join([i \in 1..Len(sections) |-> TocEntry(sections[i].title)], "\n")
    \o <<"\n", "\n">>

build_daily_markdown(date_str, sections) ==
    S_h1_open \o date_str \o S_h1_close
    \o TocText(sections)
    \o Flatten([i \in 1..Len(sections) |-> SectionText(sections[i])])

S_key_prefix == <<"T", "h", "a", "i", "l", "a", "n", "d", "/">>
S_key_suffix == <<".", "m", "d">>

\* Line 295: f"Thailand/{date_str}.md"
S3Key(date_str) == S_key_prefix \o date_str \o S_key_suffix

(***************************************************************************)
(* lambda_handler                                                          *)
(***************************************************************************)
\* The defaults of lines 22-23 and the default feed lists of lines 31-40.
MAX_ITEMS_PER_CATEGORY == 30
MAX_ITEMS_PER_FEED == 20
NumCategories == 3
NumFeedsEconomy == 1
NumFeedsTech == 1
NumFeeds == <<NumFeedsPolitics, NumFeedsEconomy, NumFeedsTech>>

CategoryTitle ==
    <<<<"<U+653F>", "<U+6CBB>">>,
      <<"<U+7D4C>", "<U+6E08>">>,
      <<"<U+30C6>", "<U+30C3>", "<U+30AF>">>>>

\* Lines 327, 332, 337: the note of a category without items.
Placeholder ==
    <<<<"_", "<U+FF08>", "<U+53D6>", "<U+5F97>", "0", "<U+4EF6>", "<U+FF1A>", "R", "S", "S", "<U+304C>", "<U+843D>", "<U+3061>", "<U+3066>", "<U+3044>", "<U+308B>", "/", "<U+30D5>", "<U+30A3>", "<U+30FC>", "<U+30C9>", "<U+5F62>", "<U+5F0F>", "<U+5909>", "<U+66F4>", "<U+306E>", "<U+53EF>", "<U+80FD>", "<U+6027>", "<U+FF09>", "_">>,
      <<"_", "<U+FF08>", "<U+53D6>", "<U+5F97>", "0", "<U+4EF6>", "<U+FF1A>", "R", "S", "S", "<U+304C>", "<U+843D>", "<U+3061>", "<U+3066>", "<U+3044>", "<U+308B>", "/", "<U+691C>", "<U+7D22>", "<U+6761>", "<U+4EF6>", "<U+304C>", "<U+5F37>", "<U+3059>", "<U+304E>", "<U+308B>", "<U+53EF>", "<U+80FD>", "<U+6027>", "<U+FF09>", "_">>,
      <<"_", "<U+FF08>", "<U+53D6>", "<U+5F97>", "0", "<U+4EF6>", "<U+FF1A>", "R", "S", "S", "<U+304C>", "<U+843D>", "<U+3061>", "<U+3066>", "<U+3044>", "<U+308B>", "/", "<U+30D5>", "<U+30A3>", "<U+30FC>", "<U+30C9>", "<U+5F62>", "<U+5F0F>", "<U+5909>", "<U+66F4>", "<U+306E>", "<U+53EF>", "<U+80FD>", "<U+6027>", "<U+FF09>", "_">>>>

NeedsSummary_Always(items) == TRUE

\* Lines 324, 329, 334: "if politics_items:".
NeedsSummary(items) == items # <<>>


\* The runs explored: the day of the run, what each configured feed does,
\* what the model answers, whether the upload goes through.
DateSamples == {[year |-> 2026, month |-> 1, day |-> 5], [year |-> 2025, month |-> 12, day |-> 31]}

EntryWithSummary1 ==
     [title |-> <<"T", "1">>, link |-> <<"h", "t", "t", "p", ":", "/", "/", "a", "/", "x", "?", "u", "t", "m", "_", "s", "=", "1">>, summary |-> <<"S", "1">>,
      description |-> <<>>, published |-> <<"2">>, updated |-> <<>>]

EntryWithSummary2 ==
     [title |-> <<"<", "b", ">", "T", "2", "<", "/", "b", ">">>, link |-> <<"h", "t", "t", "p", ":", "/", "/", "a", "/", "y">>, summary |-> <<"S", " ", "&", "a", "m", "p", ";", " ", "s">>,
      description |-> <<>>, published |-> <<"1">>, updated |-> <<>>]

EntryWithoutTitle ==
     [title |-> <<>>, link |-> <<"h", "t", "t", "p", ":", "/", "/", "a", "/", "z">>, summary |-> <<"S", "3">>,
      description |-> <<>>, published |-> <<"3">>, updated |-> <<>>]

RunEntryLists == {<<EntryWithSummary1, EntryWithSummary2>>, <<EntryWithoutTitle>>}

RunFeedOutcomes(n) ==
    {f \in FeedOutcomes(n) : f.resp # OkResponse \/ f.parseRaises}
    \cup {[url |-> FeedUrl(n), resp |-> OkResponse, parseRaises |-> FALSE, entries |-> es] :
            es \in RunEntryLists}

\* The feeds of category c are numbered after those of the categories before.
FirstFeed(c) == IF c = 1 THEN 1 ELSE IF c = 2 THEN 1 + NumFeeds[1] ELSE 1 + NumFeeds[1] + NumFeeds[2]

RunFeedLists(c) ==
    {fs \in [1..NumFeeds[c] -> UNION {RunFeedOutcomes(FirstFeed(c) + k) : k \in 0..(NumFeeds[c] - 1)}] :
        \A i \in 1..NumFeeds[c] : fs[i].url = FeedUrl(FirstFeed(c) + i - 1)}

\* invoke_model raises; or its body is no JSON and json.loads raises; or the
\* body decodes to a payload.
InvokeRaises == [raised |-> TRUE, json |-> FALSE, payload |-> JNull]
BodyNotJson == [raised |-> FALSE, json |-> FALSE, payload |-> JNull]
Answer(payload) == [raised |-> FALSE, json |-> TRUE, payload |-> payload]

S_summary_md == <<"#", "#", " ", "P", "o", "i", "n", "t", "s", "\n", "-", " ", "a", "\n", "\n", "#", "#", " ", "A", "r", "t", "i", "c", "l", "e", "s", "\n", "x">>

RunPayloads ==
    { JDict(<< <<K_content, JList(<<TextBlock(S_summary_md)>>)>> >>),
      JDict(<< <<K_completion, JStr(<<"C">>)>> >>),
      JDict(<<>>),
      JDict(<< <<K_output, JNull>> >>) }

InvokeOutcomes == {InvokeRaises, BodyNotJson} \cup {Answer(p) : p \in RunPayloads}

\* Lines 189-280 after invoke_model: the section text, or the step that raised.
SummaryOf(outcome) ==
    IF outcome.raised THEN [cause |-> "invoke_model", md |-> <<>>]
    ELSE IF ~outcome.json THEN [cause |-> "json.loads", md |-> <<>>]
    ELSE IF ParseModelResponse(outcome.payload).raised THEN [cause |-> "response", md |-> <<>>]
    ELSE [cause |-> "", md |-> ParseModelResponse(outcome.payload).out]

NoReturn == [statusCode |-> 0, s3_key |-> <<>>, counts |-> <<>>]

HandlerInit ==
    /\ hDate \in DateSamples
    /\ hPc = "fetch"
    /\ hCat = 1
    /\ hFeeds = <<>>
    /\ hItems = <<>>
    /\ hInvokes = <<>>
    /\ hSections = <<>>
    /\ hPuts = <<>>
    /\ hCause = ""
    /\ hReturn = NoReturn

\* Lines 317-319: one call of fetch_rss_items.
FetchCategory ==
    /\ hPc = "fetch"
    /\ \E feeds \in RunFeedLists(hCat) :
          /\ hFeeds' = Append(hFeeds, feeds)
          /\ hItems' = Append(hItems, fetch_rss_items(feeds, MAX_ITEMS_PER_FEED, MAX_ITEMS_PER_CATEGORY))
    /\ hCat' = IF hCat = NumCategories THEN 1 ELSE hCat + 1
    /\ hPc' = IF hCat = NumCategories THEN "summarize" ELSE "fetch"
    /\ UNCHANGED <<hDate, hInvokes, hSections, hPuts, hCause, hReturn>>

\* Where the handler is after the section of category hCat.
NextCat == IF hCat = NumCategories THEN hCat ELSE hCat + 1
NextPc == IF hCat = NumCategories THEN "build" ELSE "summarize"

\* The call of bedrock_summarize_and_translate for a category with items: one
\* invoke_model; an exception of the call or of reading its answer ends the run.
SummarizeWith(outcome) ==
    /\ hInvokes' = Append(hInvokes, [category |-> hCat, items |-> Len(hItems[hCat]), outcome |-> outcome])
    /\ IF SummaryOf(outcome).cause # ""
       THEN /\ hPc' = "aborted"
            /\ hCause' = SummaryOf(outcome).cause
            /\ UNCHANGED <<hCat, hSections>>
       ELSE /\ hSections' = Append(hSections, [title |-> CategoryTitle[hCat], md |-> SummaryOf(outcome).md])
            /\ hCat' = NextCat
            /\ hPc' = NextPc
            /\ UNCHANGED hCause

\* Lines 324-337: the section of one category.
SummarizeCategory ==
    /\ hPc = "summarize"
    /\ IF NeedsSummary(hItems[hCat])
       THEN \E outcome \in InvokeOutcomes : SummarizeWith(outcome)
       ELSE /\ hSections' = Append(hSections, [title |-> CategoryTitle[hCat], md |-> Placeholder[hCat]])
            /\ hCat' = NextCat
            /\ hPc' = NextPc
            /\ UNCHANGED <<hInvokes, hCause>>
    /\ UNCHANGED <<hDate, hFeeds, hItems, hPuts, hReturn>>

\* Lines 340-364: the document is built and uploaded; put_object may raise.
BuildAndPut ==
    /\ hPc = "build"
    /\ hPuts' = Append(hPuts, [Key |-> S3Key(FormatDate(hDate)),
                               Body |-> build_daily_markdown(FormatDate(hDate), hSections)])
    /\ \E putRaises \in BOOLEAN :
          IF putRaises
          THEN /\ hPc' = "aborted"
               /\ hCause' = "put_object"
               /\ UNCHANGED hReturn
          ELSE /\ hPc' = "done"
               /\ hReturn' = [statusCode |-> 200, s3_key |-> S3Key(FormatDate(hDate)),
                              counts |-> [c \in 1..NumCategories |-> Len(hItems[c])]]
               /\ UNCHANGED hCause
    /\ UNCHANGED <<hDate, hCat, hFeeds, hItems, hInvokes, hSections>>

HandlerIdle ==
    /\ hDate = [year |-> 0, month |-> 0, day |-> 0]
    /\ hPc = "idle"
    /\ hCat = 0
    /\ hFeeds = <<>>
    /\ hItems = <<>>
    /\ hInvokes = <<>>
    /\ hSections = <<>>
    /\ hPuts = <<>>
    /\ hCause = ""
    /\ hReturn = NoReturn


(***************************************************************************)
(* Claims about lambda_handler                                             *)
(***************************************************************************)
\* The feed delivered a feed document and feedparser read it.
FeedSucceeded(feed) ==
    /\ ~feed.resp.raised
    /\ feed.resp.status \in 200..299
    /\ feed.resp.body # <<>>
    /\ ~HeaderMarksHtml(feed.resp.ct)
    /\ ~BodyHeadMarksHtml(feed.resp.body)
    /\ ~feed.parseRaises

\* The entries of a feed that carry a title and a link.
UsableEntries(feed) ==
    {i \in 1..Len(feed.entries) :
        _clean_text(feed.entries[i].title) # <<>> /\ feed.entries[i].link # <<>>}

\* Every usable entry of every feed of category c that succeeded is among the
\* items of the category, under its normalized link.
SucceededFeedsCollected(c) ==
    \A f \in 1..Len(hFeeds[c]) :
        FeedSucceeded(hFeeds[c][f]) =>
            \A i \in UsableEntries(hFeeds[c][f]) :
                \E k \in 1..Len(hItems[c]) :
                    hItems[c][k].link = _normalize_url(hFeeds[c][f].entries[i].link)

\* A step of the handler.
HandlerStep == FetchCategory \/ SummarizeCategory \/ BuildAndPut

SummarizerOrStorage == {"invoke_model", "json.loads", "response", "put_object"}

\* C1: whatever the feeds do (the fetch raises, a non-2xx status, an HTML
\* body, an empty body, the feed parser raises, success), a run stops short
\* only where the summarizer or the upload raised: every other state has a
\* next step, the entries of the feeds that succeeded are collected, and the
\* run that ends has processed the three categories, issued exactly one
\* put_object, after the last category, and returned statusCode 200.
C1_FeedFailuresNeverAbort ==
    /\ hPc \in {"fetch", "summarize", "build"} => ENABLED HandlerStep
    /\ hPc = "aborted" => hCause \in SummarizerOrStorage
    /\ \A c \in 1..Len(hItems) : SucceededFeedsCollected(c)
    /\ Len(hPuts) <= 1
    /\ hPuts # <<>> => Len(hSections) = NumCategories
    /\ hPc = "done" =>
          /\ Len(hItems) = NumCategories
          /\ Len(hSections) = NumCategories
          /\ Len(hPuts) = 1
          /\ hReturn.statusCode = 200

\* A finished run in which the first politics feed raised, the second one
\* delivered its two entries, and the economy feed answered with HTML.
C1_Witness ==
    /\ hPc = "done"
    /\ hFeeds[1][1].resp.raised
    /\ FeedSucceeded(hFeeds[1][2])
    /\ Len(hItems[1]) = 2
    /\ hFeeds[2][1].resp.body = HtmlBody
    /\ hFeeds[3][1].parseRaises
    /\ hReturn.statusCode = 200
    /\ Len(hPuts) = 1

\* The lines of a document that are H2 headings.
IsH2Line(line) == StartsWith(line, S_h2)
H2Lines(doc) == SelectSeq(Split(doc, "\n"), IsH2Line)

H2Of(title) == S_h2 \o title

\* The uploaded document.
UploadedDoc == hPuts[1].Body

\* One category has two items, each with a summary, and the others have none.
OneCategoryOfThree ==
    /\ Len(hItems[1]) = 2
    /\ \A k \in 1..2 : hItems[1][k].summary # <<>>
    /\ hItems[2] = <<>>
    /\ hItems[3] = <<>>

\* The first section holds what the summarizer returned, the two others the
\* placeholder, each under its heading in the document.
ContentThenPlaceholders ==
    /\ Len(hInvokes) = 1
    /\ hSections[1].md = ParseModelResponse(hInvokes[1].outcome.payload).out
    /\ hSections[2].md = Placeholder[2]
    /\ hSections[3].md = Placeholder[3]
    /\ \A c \in 1..NumCategories :
          /\ hSections[c].title = CategoryTitle[c]
          /\ IsSubstring(H2Of(hSections[c].title) \o <<"\n", "\n">> \o hSections[c].md \o S_rule,
                         UploadedDoc)

\* C3 as stated: the document of a run has exactly one H2 per section, the
\* three category headings in the fixed order (and, when one category has two
\* items with summaries and the others none, the first section holds the
\* summarizer's content and the others the placeholder).
C3_OneH2PerSection ==
    hPc = "done" =>
        /\ H2Lines(UploadedDoc) = [c \in 1..Len(hSections) |-> H2Of(hSections[c].title)]
        /\ OneCategoryOfThree => ContentThenPlaceholders

\* The H2 lines of a section: its heading, then those of its body.
RECURSIVE SectionH2Lines(_)
SectionH2Lines(sections) ==
    IF sections = <<>> THEN <<>>
    ELSE <<H2Of(sections[1].title)>> \o H2Lines(sections[1].md)
         \o SectionH2Lines(Tail(sections))

\* C3: the H2 lines of the document are the heading of the table of contents,
\* then, per section in input order, the section's heading followed by the H2
\* lines of its body; when one category has two items with summaries and the
\* others none, the first section holds the summarizer's content and the
\* others the placeholder.
C3_TocThenOneH2PerSection ==
    hPc = "done" =>
        /\ H2Lines(UploadedDoc) = <<Take(S_toc_heading, Len(S_toc_heading) - 1)>> \o SectionH2Lines(hSections)
        /\ OneCategoryOfThree => ContentThenPlaceholders

\* Such a run, with an answer that has no H2 line: four H2 lines in all.
C3_Witness ==
    /\ hPc = "done"
    /\ OneCategoryOfThree
    /\ ContentThenPlaceholders
    /\ hSections[1].md = <<"C">>
    /\ Len(H2Lines(UploadedDoc)) = NumCategories + 1

\* The invoke_model calls made for category c.
InvokesFor(c) == Len(SelectSeq(hInvokes, LAMBDA call : call.category = c))

\* C6: for a category without items invoke_model is never called and the
\* document holds the category's placeholder under its heading; invoke_model
\* is called at most once for a category, and once exactly when the category
\* has an item and its turn has come.
C6_NoItemsNoInvoke ==
    \A c \in 1..NumCategories :
        /\ InvokesFor(c) <= 1
        /\ InvokesFor(c) = 1 => (c <= Len(hItems) /\ hItems[c] # <<>>)
        /\ (c <= Len(hSections) /\ hItems[c] # <<>>) => InvokesFor(c) = 1
        /\ (hPc = "done" /\ hItems[c] = <<>>) =>
              IsSubstring(H2Of(CategoryTitle[c]) \o <<"\n", "\n">> \o Placeholder[c] \o S_rule,
                          UploadedDoc)

\* A finished run with a category without items and one with items.
C6_Witness ==
    /\ hPc = "done"
    /\ hItems[1] = <<>>
    /\ InvokesFor(1) = 0
    /\ hSections[1].md = Placeholder[1]
    /\ hItems[2] # <<>>
    /\ InvokesFor(2) = 1


(***************************************************************************)
(* The viewer (app.py): session state, month navigation, day selection and *)
(* the retrieval of the selected day's document.                           *)
(***************************************************************************)
\* How many months the explored navigation moves away from the current one.
MaxMonthsAway == 1

MonthOf(d) == [year |-> d.year, month |-> d.month]

IsLeap(y) == (y % 4 = 0 /\ y % 100 # 0) \/ y % 400 = 0

\* The days of a month, as calendar.monthdatescalendar lays them out.
DaysInMonth(y, m) ==
    IF m = 2 THEN (IF IsLeap(y) THEN 29 ELSE 28)
    ELSE IF m \in {4, 6, 9, 11} THEN 30 ELSE 31

\* md_key_for(d)
md_key_for(d) == S_key_prefix \o FormatDate(d) \o S_key_suffix

\* What s3.get_object and the read of its body do.  A ClientError carries a
\* response, whose "Error" member and whose "Code" may be missing; a byte
\* that is no UTF-8 is written "<0xFF>".
GotObject(body, readRaises) ==
    [kind |-> "object", body |-> body, readRaises |-> readRaises,
     hasError |-> FALSE, hasCode |-> FALSE, code |-> ""]
ClientError(hasError, hasCode, code) ==
    [kind |-> "ClientError", body |-> <<>>, readRaises |-> FALSE,
     hasError |-> hasError, hasCode |-> hasCode, code |-> code]
OtherException ==
    [kind |-> "Exception", body |-> <<>>, readRaises |-> FALSE,
     hasError |-> FALSE, hasCode |-> FALSE, code |-> ""]

ErrorCodeSamples ==
    {"NoSuchKey", "404", "NotFound", "AccessDenied", "NoSuchBucket", "403", "nosuchkey", "SlowDown"}

BodySamplesViewer ==
    {<<"#", " ", "T", "\n">>, <<>>, <<"#", "<0xFF>">>}

GetOutcomes ==
    {GotObject(b, r) : b \in BodySamplesViewer, r \in BOOLEAN}
    \cup {ClientError(TRUE, TRUE, c) : c \in ErrorCodeSamples}
    \cup {ClientError(TRUE, FALSE, ""), ClientError(FALSE, FALSE, ""), OtherException}

\* bytes.decode("utf-8") raises UnicodeDecodeError on a byte that is no UTF-8.
DecodeRaises(body) == \E i \in 1..Len(body) : body[i] = "<0xFF>"

\* Line 245: e.response.get("Error", {}).get("Code", "")
ErrorCode(outcome) ==
    IF outcome.hasError /\ outcome.hasCode THEN outcome.code ELSE ""

IsNotFound_NoSuchKeyOnly(code) == code = "NoSuchKey"

\* Line 246: code in ("NoSuchKey", "404", "NotFound")
IsNotFound(code) == code \in {"NoSuchKey", "404", "NotFound"}

NothingShown == [state |-> "none", text |-> <<>>]

\* Lines 241-251: what the right column shows.
RenderDocument(outcome) ==
    IF outcome.kind = "object"
    THEN IF outcome.readRaises \/ DecodeRaises(outcome.body)
         THEN [state |-> "error", text |-> <<>>]
         ELSE [state |-> "markdown", text |-> outcome.body]
    ELSE IF outcome.kind = "ClientError"
    THEN IF IsNotFound(ErrorCode(outcome))
         THEN [state |-> "info", text |-> <<>>]
         ELSE [state |-> "error", text |-> <<>>]
    ELSE [state |-> "error", text |-> <<>>]

NowSamples == {[year |-> 2025, month |-> 12, day |-> 31], [year |-> 2024, month |-> 2, day |-> 29]}

\* Months from the current month to the month in view.
MonthsAway(mv) == (mv.year * 12 + mv.month) - (vNow.year * 12 + vNow.month)

NoOutcome == [kind |-> "none", body |-> <<>>, readRaises |-> FALSE,
              hasError |-> FALSE, hasCode |-> FALSE, code |-> ""]

\* Lines 114-121: the first run of the script sets the session state.
ViewerInit ==
    /\ vNow \in NowSamples
    /\ vSelected = vNow
    /\ vMonth = MonthOf(vNow)
    /\ vPc = "render"
    /\ vKey = <<>>
    /\ vGet = NoOutcome
    /\ vUi = NothingShown

\* Lines 237-251: one run of the script down to the right column.
Render ==
    /\ vPc = "render"
    /\ vKey' = md_key_for(vSelected)
    /\ \E outcome \in GetOutcomes :
          /\ vGet' = outcome
          /\ vUi' = RenderDocument(outcome)
    /\ vPc' = "shown"
    /\ UNCHANGED <<vNow, vSelected, vMonth>>

\* st.rerun() ends the run of the script before its right column: nothing of
\* that run has been asked for or shown when the next run starts.
RerunFromTop ==
    /\ vPc' = "render"
    /\ vKey' = <<>>
    /\ vGet' = NoOutcome
    /\ vUi' = NothingShown

\* Lines 161-165: the month view before mv.
PrevMonthView(mv) ==
    IF mv.month = 1 THEN [year |-> mv.year - 1, month |-> 12]
    ELSE [year |-> mv.year, month |-> mv.month - 1]

NextMonthView_NoYearCarry(mv) ==
    IF mv.month = 12 THEN [year |-> mv.year, month |-> 1]
    ELSE [year |-> mv.year, month |-> mv.month + 1]

\* Lines 174-178: the month view after mv.
NextMonthView(mv) ==
    IF mv.month = 12 THEN [year |-> mv.year + 1, month |-> 1]
    ELSE [year |-> mv.year, month |-> mv.month + 1]

\* Lines 160-167: the prev-month button, then st.rerun().
PrevMonth ==
    /\ vPc = "shown"
    /\ MonthsAway(vMonth) > -MaxMonthsAway
    /\ vMonth' = PrevMonthView(vMonth)
    /\ RerunFromTop
    /\ UNCHANGED <<vNow, vSelected>>

\* Lines 173-180: the next-month button, then st.rerun().
NextMonth ==
    /\ vPc = "shown"
    /\ MonthsAway(vMonth) < MaxMonthsAway
    /\ vMonth' = NextMonthView(vMonth)
    /\ RerunFromTop
    /\ UNCHANGED <<vNow, vSelected>>

\* Lines 223-232: the button of a day of the month in view, then st.rerun().
SelectDay ==
    /\ vPc = "shown"
    /\ \E day \in 1..DaysInMonth(vMonth.year, vMonth.month) :
          vSelected' = [year |-> vMonth.year, month |-> vMonth.month, day |-> day]
    /\ RerunFromTop
    /\ UNCHANGED <<vNow, vMonth>>

ViewerIdle ==
    /\ vNow = [year |-> 0, month |-> 0, day |-> 0]
    /\ vSelected = vNow
    /\ vMonth = MonthOf(vNow)
    /\ vPc = "idle"
    /\ vKey = <<>>
    /\ vGet = NoOutcome
    /\ vUi = NothingShown

(***************************************************************************)
(* Claims about the viewer                                                 *)
(***************************************************************************)
NotFoundCodes == {"NoSuchKey", "404", "NotFound"}

\* The get failed with a storage error that carries the code.
FailedWithCode(codes) ==
    vGet.kind = "ClientError" /\ vGet.hasError /\ vGet.hasCode /\ vGet.code \in codes

\* C10: the render of the selected date asks for that date's key; a get that
\* fails with code NoSuchKey, 404 or NotFound ends in the informational "not
\* found" state; a get that fails with any other storage error, or with any
\* other exception, ends in the error state; the Markdown shown is that of a
\* get that succeeded.
C10_NotFoundIsInfo ==
    vPc = "shown" =>
        /\ vKey = S_key_prefix \o FormatDate(vSelected) \o S_key_suffix
        /\ FailedWithCode(NotFoundCodes) => vUi.state = "info"
        /\ (vGet.kind = "ClientError" /\ ~FailedWithCode(NotFoundCodes)) => vUi.state = "error"
        /\ vGet.kind = "Exception" => vUi.state = "error"
        /\ vUi.state = "markdown" => (vGet.kind = "object" /\ vUi.text = vGet.body)
        /\ vUi.state = "info" => FailedWithCode(NotFoundCodes)

\* A day chosen in the calendar whose get failed with code 404.
C10_Witness ==
    /\ vPc = "shown"
    /\ vSelected # vNow
    /\ FailedWithCode({"404"})
    /\ vUi.state = "info"


\* One month forward: the next month of the year, or January of the next
\* year after December.
OneMonthForward(a, b) ==
    \/ a.month < 12 /\ b.year = a.year /\ b.month = a.month + 1
    \/ a.month = 12 /\ b.year = a.year + 1 /\ b.month = 1

\* A step that changes month_view moves it one month, the year changing (by
\* one) only between December and January, the opposite button would bring
\* the month view back, and selected_date is left alone.
MonthStep ==
    vMonth' # vMonth =>
        /\ \/ OneMonthForward(vMonth, vMonth') /\ PrevMonthView(vMonth') = vMonth
           \/ OneMonthForward(vMonth', vMonth) /\ NextMonthView(vMonth') = vMonth
        /\ vSelected' = vSelected

\* A step that changes selected_date leaves month_view alone, and the day is
\* one of the month in view.
DayStep ==
    vSelected' # vSelected =>
        /\ vMonth' = vMonth
        /\ MonthOf(vSelected') = vMonth
        /\ vSelected'.day \in 1..DaysInMonth(vMonth.year, vMonth.month)

\* C11: from the initial session state (today selected, today's month in
\* view), through any sequence of prev-month, next-month and day clicks,
\* month_view.month stays in 1..12; a click on a month button moves the view
\* by one month, the year changing by exactly one and only between December
\* and January; next-month then prev-month, and the reverse, give back the
\* same (year, month); month navigation leaves selected_date unchanged and a
\* day click leaves month_view unchanged.
C11_MonthNavigation ==
    [][/\ vMonth.month \in 1..12
       /\ vMonth'.month \in 1..12
       /\ PrevMonthView(NextMonthView(vMonth)) = vMonth
       /\ NextMonthView(PrevMonthView(vMonth)) = vMonth
       /\ MonthStep
       /\ DayStep]_viewerVars

\* Started on 31 December 2025: next-month into January 2026, a day of
\* January chosen, prev-month back into December 2025 with that day still
\* selected.
C11_Witness ==
    /\ vPc = "shown"
    /\ vNow = [year |-> 2025, month |-> 12, day |-> 31]
    /\ vMonth = MonthOf(vNow)
    /\ vSelected = [year |-> 2026, month |-> 1, day |-> 15]

\* ---- SPECIFICATIONS ----
vars == <<pyLegacyUnsplit, normVars, fetchVars, itemVars, summVars, handlerVars, viewerVars>>

SpecNormInit ==
    /\ pyLegacyUnsplit \in BOOLEAN
    /\ NormInit
    /\ FetchIdle
    /\ ItemsIdle
    /\ SummarizeIdle
    /\ HandlerIdle
    /\ ViewerIdle

SpecNormNext ==
    \/ NormalizeOnce /\ UNCHANGED <<pyLegacyUnsplit, fetchVars, itemVars, summVars, handlerVars, viewerVars>>
    \/ NormalizeTwice /\ UNCHANGED <<pyLegacyUnsplit, fetchVars, itemVars, summVars, handlerVars, viewerVars>>

SpecNorm == SpecNormInit /\ [][SpecNormNext]_vars

SpecFetchInit ==
    /\ pyLegacyUnsplit = FALSE
    /\ FetchInit
    /\ NormIdle
    /\ ItemsIdle
    /\ SummarizeIdle
    /\ HandlerIdle
    /\ ViewerIdle

SpecFetchNext ==
    \/ FetchUrl /\ UNCHANGED <<pyLegacyUnsplit, normVars, itemVars, summVars, handlerVars, viewerVars>>

SpecFetch == SpecFetchInit /\ [][SpecFetchNext]_vars

SpecItemsInit ==
    /\ pyLegacyUnsplit \in BOOLEAN
    /\ ItemsInit
    /\ NormIdle
    /\ FetchIdle
    /\ SummarizeIdle
    /\ HandlerIdle
    /\ ViewerIdle

SpecItemsNext ==
    \/ ProcessFeed /\ UNCHANGED <<pyLegacyUnsplit, normVars, fetchVars, summVars, handlerVars, viewerVars>>
    \/ ReturnItems /\ UNCHANGED <<pyLegacyUnsplit, normVars, fetchVars, summVars, handlerVars, viewerVars>>

SpecItems == SpecItemsInit /\ [][SpecItemsNext]_vars

SpecSummarizeInit ==
    /\ pyLegacyUnsplit = FALSE
    /\ SummarizeInit
    /\ NormIdle
    /\ FetchIdle
    /\ ItemsIdle
    /\ HandlerIdle
    /\ ViewerIdle

SpecSummarizeNext ==
    \/ ParseResponse /\ UNCHANGED <<pyLegacyUnsplit, normVars, fetchVars, itemVars, handlerVars, viewerVars>>

SpecSummarize == SpecSummarizeInit /\ [][SpecSummarizeNext]_vars

Init ==
    /\ pyLegacyUnsplit = FALSE
    /\ HandlerInit
    /\ NormIdle
    /\ FetchIdle
    /\ ItemsIdle
    /\ SummarizeIdle
    /\ ViewerIdle

Next ==
    \/ FetchCategory /\ UNCHANGED <<pyLegacyUnsplit, normVars, fetchVars, itemVars, summVars, viewerVars>>
    \/ SummarizeCategory /\ UNCHANGED <<pyLegacyUnsplit, normVars, fetchVars, itemVars, summVars, viewerVars>>
    \/ BuildAndPut /\ UNCHANGED <<pyLegacyUnsplit, normVars, fetchVars, itemVars, summVars, viewerVars>>

Spec == Init /\ [][Next]_vars

SpecViewerInit ==
    /\ pyLegacyUnsplit = FALSE
    /\ ViewerInit
    /\ NormIdle
    /\ FetchIdle
    /\ ItemsIdle
    /\ SummarizeIdle
    /\ HandlerIdle

SpecViewerNext ==
    \/ Render /\ UNCHANGED <<pyLegacyUnsplit, normVars, fetchVars, itemVars, summVars, handlerVars>>
    \/ PrevMonth /\ UNCHANGED <<pyLegacyUnsplit, normVars, fetchVars, itemVars, summVars, handlerVars>>
    \/ NextMonth /\ UNCHANGED <<pyLegacyUnsplit, normVars, fetchVars, itemVars, summVars, handlerVars>>
    \/ SelectDay /\ UNCHANGED <<pyLegacyUnsplit, normVars, fetchVars, itemVars, summVars, handlerVars>>

SpecViewer == SpecViewerInit /\ [][SpecViewerNext]_vars

====
